---- MODULE Spec2Model ----
(***************************************************************************)
(* upix-api (src/src/lib.rs): the POST / handler of the image upload       *)
(* worker.  One request runs  handle_post_image -> post_image : storage    *)
(* binding, Content-Type gate, body read, size cap, hash + decode,         *)
(* dimension gate, then five upload tasks (scales 1, 2, 4, 8, 16) joined   *)
(* with join_all and collected into one Result.                            *)
(*                                                                         *)
(* The worker is single threaded: code between two awaits runs as one      *)
(* step.  The awaits are req.bytes() (line 96), bucket.put(..).execute()   *)
(* (line 226) and join_all (line 122).                                     *)
(*                                                                         *)
(* External library behaviour (image, sha2, hex, R2) is modelled at its    *)
(* interface: the decoder's outcome and each put's outcome are inputs.     *)
(* SHA-256 is replaced by a short stand-in digest (DigestLen bytes) that   *)
(* is a function of the body bytes only; hex::encode is modelled exactly.  *)
(***************************************************************************)
EXTENDS Integers, Sequences, FiniteSets, TLC

VARIABLES pc, req, loc, tasks, puts, resp, store, trace, dim_in, dim_out,
          der_in, der_out, order, observe

vars == <<pc, req, loc, tasks, puts, resp, store, trace, dim_in, dim_out,
          der_in, der_out, order, observe>>

(***************************************************************************)
(* Option<T> : <<>> is None, <<x>> is Some(x).                             *)
(***************************************************************************)
None == <<>>
Some(x) == <<x>>

(***************************************************************************)
(* Text helpers.                                                           *)
(***************************************************************************)
StartsWith(s, p) == Len(s) >= Len(p) /\ SubSeq(s, 1, Len(p)) = p

Contains(s, sub) ==
    \E i \in 1..(Len(s) - Len(sub) + 1) : SubSeq(s, i, i + Len(sub) - 1) = sub

DecDigits == <<"0", "1", "2", "3", "4", "5", "6", "7", "8", "9">>

\* Display of an unsigned integer, as format!("{}", n) prints it.
RECURSIVE FormatU32(_)
FormatU32(n) ==
    IF n < 10 THEN DecDigits[n + 1]
    ELSE FormatU32(n \div 10) \o DecDigits[(n % 10) + 1]

HexDigits == <<"0", "1", "2", "3", "4", "5", "6", "7",
               "8", "9", "a", "b", "c", "d", "e", "f">>

\* hex::encode : two lowercase hex digits per byte, high nibble first.
RECURSIVE HexEncode(_)
HexEncode(bytes) ==
    IF bytes = <<>> THEN ""
    ELSE HexDigits[(Head(bytes) \div 16) + 1] \o HexDigits[(Head(bytes) % 16) + 1]
         \o HexEncode(Tail(bytes))

(***************************************************************************)
(* Request bodies.  A body is a byte string kept run-length encoded, a     *)
(* sequence of runs [b |-> byte, n |-> count] with n > 0 and adjacent runs *)
(* of different bytes, so that equal bodies are equal values.              *)
(***************************************************************************)
RECURSIVE BodyLen(_)
BodyLen(body) ==
    IF body = <<>> THEN 0 ELSE Head(body).n + BodyLen(Tail(body))

\* Number of bytes of the stand-in digest (SHA-256 has 32).
DigestLen == 2

RECURSIVE ByteMix(_)
ByteMix(body) ==
    IF body = <<>> THEN 0
    ELSE Head(body).n * (Head(body).b + 1) + ByteMix(Tail(body))

\* Sha256::new(); update(&img_data); finalize() : a digest of the bytes alone.
Sha256(body) ==
    [j \in 1..DigestLen |-> (ByteMix(body) \div (256 ^ (j - 1))) % 256]

(***************************************************************************)
(* ApiError and the responses built from it.                               *)
(***************************************************************************)
ApiErrorNew(status, msg) == [status |-> status, message |-> Some(msg)]
ApiErrorNoMsg(status) == [status |-> status, message |-> None]

EmptyBody == [kind |-> "empty", message |-> "", items |-> <<>>]
JsonMessage(msg) == [kind |-> "json_message", message |-> msg, items |-> <<>>]
JsonList(items) == [kind |-> "json_list", message |-> "", items |-> items]

\* ApiError::to_response
ToResponse(e) ==
    [status |-> e.status,
     body |-> IF e.message = None THEN EmptyBody ELSE JsonMessage(e.message[1])]

\* Result<T, E>; Unit is the value ().
Unit == <<>>
Ok(v) == [ok |-> TRUE, val |-> Some(v), err |-> None]
Err(e) == [ok |-> FALSE, val |-> None, err |-> Some(e)]

\* handle_post_image
HandlePostImage(res) ==
    IF res.ok THEN [status |-> 200, body |-> JsonList(res.val[1])]
    ELSE ToResponse(res.err[1])

(***************************************************************************)
(* image::ImageFormat: the three table look-ups the handler uses.          *)
(***************************************************************************)
\* ImageFormat::from_mime_type : exact match on the whole string.
FromMimeType(ct) ==
    CASE ct = "image/avif" -> Some("Avif")
      [] ct = "image/jpeg" -> Some("Jpeg")
      [] ct = "image/png" -> Some("Png")
      [] ct = "image/gif" -> Some("Gif")
      [] ct = "image/webp" -> Some("WebP")
      [] ct = "image/tiff" -> Some("Tiff")
      [] ct \in {"image/x-targa", "image/x-tga"} -> Some("Tga")
      [] ct = "image/vnd-ms.dds" -> Some("Dds")
      [] ct = "image/bmp" -> Some("Bmp")
      [] ct = "image/x-icon" -> Some("Ico")
      [] ct = "image/vnd.radiance" -> Some("Hdr")
      [] ct = "image/x-exr" -> Some("OpenExr")
      [] ct \in {"image/x-portable-bitmap", "image/x-portable-graymap",
                 "image/x-portable-pixmap", "image/x-portable-anymap"} -> Some("Pnm")
      [] ct \in {"image/x-qoi", "image/qoi"} -> Some("Qoi")
      [] OTHER -> None

\* ImageFormat::extensions_str()[0]
FirstExtension(fmt) ==
    CASE fmt = "Png" -> "png"
      [] fmt = "Jpeg" -> "jpg"
      [] fmt = "Gif" -> "gif"
      [] fmt = "WebP" -> "webp"
      [] fmt = "Pnm" -> "pbm"
      [] fmt = "Tiff" -> "tiff"
      [] fmt = "Tga" -> "tga"
      [] fmt = "Dds" -> "dds"
      [] fmt = "Bmp" -> "bmp"
      [] fmt = "Ico" -> "ico"
      [] fmt = "Hdr" -> "hdr"
      [] fmt = "OpenExr" -> "exr"
      [] fmt = "Avif" -> "avif"
      [] fmt = "Qoi" -> "qoi"

\* ImageFormat::to_mime_type
ToMimeType(fmt) ==
    CASE fmt = "Png" -> "image/png"
      [] fmt = "Jpeg" -> "image/jpeg"
      [] fmt = "Gif" -> "image/gif"
      [] fmt = "WebP" -> "image/webp"
      [] fmt = "Bmp" -> "image/bmp"
      [] OTHER -> "application/octet-stream"

(***************************************************************************)
(* validate_img_format                                                     *)
(***************************************************************************)
\* Variant: every format the library recognises is let through.
ValidateImgFormatAnyKnown(content_type) ==
    IF ~StartsWith(content_type, "image/")
    THEN Err(ApiErrorNew(400, "Content-Type is not for an image"))
    ELSE LET m == FromMimeType(content_type) IN
         IF m = None
         THEN Err(ApiErrorNew(400, "Content-Type is not for an image"))
         ELSE Ok(m[1])

\* Variant: the unsupported format named by its MIME type, not its extension.
ValidateImgFormatNamesMime(content_type) ==
    IF ~StartsWith(content_type, "image/")
    THEN Err(ApiErrorNew(400, "Content-Type is not for an image"))
    ELSE LET m == FromMimeType(content_type) IN
         IF m = None
         THEN Err(ApiErrorNew(400, "Content-Type is not for an image"))
         ELSE IF m[1] \in {"Png", "WebP", "Bmp", "Gif"}
              THEN Ok(m[1])
              ELSE Err(ApiErrorNew(400,
                       "unsupported image format: " \o content_type))

ValidateImgFormat(content_type) ==
    IF ~StartsWith(content_type, "image/")
    THEN Err(ApiErrorNew(400, "Content-Type is not for an image"))
    ELSE LET m == FromMimeType(content_type) IN
         IF m = None
         THEN Err(ApiErrorNew(400, "Content-Type is not for an image"))
         ELSE IF m[1] \in {"Png", "WebP", "Bmp", "Gif"}
              THEN Ok(m[1])
              ELSE Err(ApiErrorNew(400,
                       "unsupported image format: " \o FirstExtension(m[1])))

(***************************************************************************)
(* validate_img_dimension                                                  *)
(***************************************************************************)
MAX_PIXELS == 65536
MAX_LONG_SIDE_LEN == 1024
MAX_ASPECT_RATIO == 16

(***************************************************************************)
(* u32 arithmetic.  TLC's integers are narrower than 2^32, so a            *)
(* u32 product is kept in two 16-bit halves [hi, lo] (value hi*2^16 + lo), *)
(* computed by long multiplication on base-256 digits; operands are below  *)
(* 2^31.                                                                   *)
(***************************************************************************)
Half == 2 ^ 16

Digit(x, i) == (x \div (256 ^ i)) % 256

RECURSIVE ColumnSum(_, _, _, _)
ColumnSum(a, b, k, i) ==
    IF i > k \/ i > 3 THEN 0
    ELSE (IF k - i <= 3 THEN Digit(a, i) * Digit(b, k - i) ELSE 0)
         + ColumnSum(a, b, k, i + 1)

\* Column k of the long multiplication plus the carry of the columns below.
RECURSIVE Column(_, _, _)
Column(a, b, k) ==
    ColumnSum(a, b, k, 0) + (IF k = 0 THEN 0 ELSE Column(a, b, k - 1) \div 256)

\* a * b needs more than 32 bits.
MulOverflows(a, b) ==
    (Column(a, b, 3) \div 256) + ColumnSum(a, b, 4, 0) + ColumnSum(a, b, 5, 0)
        + ColumnSum(a, b, 6, 0) > 0

\* u32 multiplication without overflow checks (the release profile): the
\* low 32 bits of the product.
WrappingMul(a, b) ==
    [hi |-> (Column(a, b, 3) % 256) * 256 + (Column(a, b, 2) % 256),
     lo |-> (Column(a, b, 1) % 256) * 256 + (Column(a, b, 0) % 256)]

\* x > n, for a u32 x in halves and n below 2^31.
WideGt(x, n) == x.hi > n \div Half \/ (x.hi = n \div Half /\ x.lo > n % Half)

\* A u32 in halves as a number, where it is below 2^31.
Narrow(x) == x.hi * Half + x.lo

\* Display of a u32 in halves.
RECURSIVE FormatWide(_)
FormatWide(x) ==
    IF x.hi = 0 THEN FormatU32(x.lo)
    ELSE LET r == (x.hi % 10) * Half + x.lo
         IN  FormatWide([hi |-> x.hi \div 10, lo |-> r \div 10])
             \o DecDigits[(r % 10) + 1]

\* f64::from(long) / f64::from(short) > MAX_ASPECT_RATIO.  Both operands are
\* exact in f64; x / 0 is +inf for x > 0 and NaN (never > 16) for x = 0.
AspectExceeds(long, short) ==
    IF short = 0 THEN long > 0 ELSE long \div short > MAX_ASPECT_RATIO
        \/ (long \div short = MAX_ASPECT_RATIO /\ long % short > 0)

\* Variant: the long-side check left out.
ValidateImgDimensionNoLongSide(w, h, checks) ==
    IF checks /\ MulOverflows(w, h) THEN [panic |-> TRUE, res |-> Ok(Unit)]
    ELSE [panic |-> FALSE,
          res |->
            IF WideGt(WrappingMul(w, h), MAX_PIXELS)
            THEN Err(ApiErrorNew(400, "Image has too many pixels"))
            ELSE LET long == IF w > h THEN w ELSE h
                     short == IF w > h THEN h ELSE w
                 IN  IF AspectExceeds(long, short)
                     THEN Err(ApiErrorNew(400, "Aspect retio of image is out of range"))
                     ELSE Ok(Unit)]

\* Variant: no dimension check at all.
ValidateImgDimensionSkipped(w, h, checks) == [panic |-> FALSE, res |-> Ok(Unit)]

\* checks = TRUE is a build with overflow checks (w * h panics on overflow),
\* checks = FALSE one without (w * h wraps).
ValidateImgDimension(w, h, checks) ==
    IF checks /\ MulOverflows(w, h) THEN [panic |-> TRUE, res |-> Ok(Unit)]
    ELSE [panic |-> FALSE,
          res |->
            IF WideGt(WrappingMul(w, h), MAX_PIXELS)
            THEN Err(ApiErrorNew(400,
                     "Image has too many pixels (" \o FormatWide(WrappingMul(w, h))
                     \o " > " \o FormatU32(MAX_PIXELS) \o ")"))
            ELSE LET long == IF w > h THEN w ELSE h
                     short == IF w > h THEN h ELSE w
                 IN  IF long > MAX_LONG_SIDE_LEN
                     THEN Err(ApiErrorNew(400,
                              "Long side of image is too long (" \o FormatU32(long)
                              \o " > " \o FormatU32(MAX_LONG_SIDE_LEN) \o ")"))
                     ELSE IF AspectExceeds(long, short)
                     THEN Err(ApiErrorNew(400,
                              "Aspect retio of image is out of range ("
                              \o FormatU32(long) \o " : " \o FormatU32(short) \o " > "
                              \o FormatU32(MAX_ASPECT_RATIO) \o " : 1)"))
                     ELSE Ok(Unit)]

(***************************************************************************)
(* load_image_with_hash.  `decoded` is what the image library returns for  *)
(* these bytes and this format: [kind |-> "image", w, h], or an error of   *)
(* kind "Decoding" (ImageError::Decoding) or "Other" (any other variant).  *)
(***************************************************************************)
\* Variant: the declared format mixed into the fingerprint.
LoadImageWithHashOfFormat(img_data, img_fmt, decoded) ==
    LET hash == HexEncode(Sha256(img_data)) \o FirstExtension(img_fmt) IN
    CASE decoded.kind = "Decoding" -> Err(ApiErrorNew(400, "failed to decode image"))
      [] decoded.kind = "Other" -> Err(ApiErrorNoMsg(500))
      [] OTHER -> Ok([img |-> [w |-> decoded.w, h |-> decoded.h], hash |-> hash])

LoadImageWithHash(img_data, img_fmt, decoded) ==
    LET hash == HexEncode(Sha256(img_data)) IN
    CASE decoded.kind = "Decoding" -> Err(ApiErrorNew(400, "failed to decode image"))
      [] decoded.kind = "Other" -> Err(ApiErrorNoMsg(500))
      [] OTHER -> Ok([img |-> [w |-> decoded.w, h |-> decoded.h], hash |-> hash])

(***************************************************************************)
(* post_image up to its first await (lines 85-94), and from the body read  *)
(* to the construction of the uploader (lines 96-113).  Each returns the   *)
(* Result together with the steps it evaluated, in order.                  *)
(***************************************************************************)
MAX_BODY_LEN == 512 * 1024

DEST_FMT == "Png"

\* Variant: the cap compared with >= (a body of exactly 512 KiB refused).
BodyTooLargeAtCap(body) == BodyLen(body) >= MAX_BODY_LEN

\* data length limit: 512 KiB
BodyTooLarge(body) == BodyLen(body) > MAX_BODY_LEN

\* Variant: the header looked at before the bucket binding.
PostImageHeadHeaderFirst(sub) ==
    IF sub.content_type = None
    THEN [res |-> Err(ApiErrorNew(400, "missing Content-Type header")),
          steps |-> <<"content_type">>]
    ELSE IF ~ValidateImgFormat(sub.content_type[1]).ok
    THEN [res |-> ValidateImgFormat(sub.content_type[1]),
          steps |-> <<"content_type", "validate_img_format">>]
    ELSE IF ~sub.bucket
    THEN [res |-> Err(ApiErrorNoMsg(500)),
          steps |-> <<"content_type", "validate_img_format", "bucket">>]
    ELSE [res |-> ValidateImgFormat(sub.content_type[1]),
          steps |-> <<"bucket", "content_type", "validate_img_format">>]

PostImageHead(sub) ==
    IF ~sub.bucket
    THEN [res |-> Err(ApiErrorNoMsg(500)), steps |-> <<"bucket">>]
    ELSE IF sub.content_type = None
    THEN [res |-> Err(ApiErrorNew(400, "missing Content-Type header")),
          steps |-> <<"bucket", "content_type">>]
    ELSE [res |-> ValidateImgFormat(sub.content_type[1]),
          steps |-> <<"bucket", "content_type", "validate_img_format">>]

PostImageLoad(sub, img_fmt, checks) ==
    IF ~sub.read_ok
    THEN [panic |-> FALSE, res |-> Err(ApiErrorNoMsg(500)), steps |-> <<"bytes">>]
    ELSE IF BodyTooLarge(sub.body)
    THEN [panic |-> FALSE, res |-> Err(ApiErrorNoMsg(413)),
          steps |-> <<"bytes", "body_len">>]
    ELSE LET l == LoadImageWithHash(sub.body, img_fmt, sub.decode) IN
         IF ~l.ok
         THEN [panic |-> FALSE, res |-> Err(l.err[1]),
               steps |-> <<"bytes", "body_len", "load_image_with_hash">>]
         ELSE LET v == ValidateImgDimension(l.val[1].img.w, l.val[1].img.h, checks)
                  all == <<"bytes", "body_len", "load_image_with_hash",
                           "validate_img_dimension">>
              IN  IF v.panic
                  THEN [panic |-> TRUE, res |-> Ok(Unit), steps |-> all]
                  ELSE IF ~v.res.ok
                  THEN [panic |-> FALSE, res |-> Err(v.res.err[1]), steps |-> all]
                  ELSE [panic |-> FALSE,
                        res |-> Ok([img |-> l.val[1].img, hash |-> l.val[1].hash,
                                    dest_fmt |-> DEST_FMT]),
                        steps |-> all]

(***************************************************************************)
(* ImageUploader: the five upload tasks.                                   *)
(***************************************************************************)
\* The size DynamicImage::resize gives: the largest size within (nw, nh)
\* that keeps the aspect ratio, each side at least 1.
ResizeDimensions(img, nw, nh) ==
    IF nw * img.h <= nh * img.w
    THEN [w |-> IF nw < 1 THEN 1 ELSE nw,
          h |-> LET x == (2 * img.h * nw + img.w) \div (2 * img.w)
                IN  IF x < 1 THEN 1 ELSE x]
    ELSE [w |-> LET x == (2 * img.w * nh + img.h) \div (2 * img.h)
                IN  IF x < 1 THEN 1 ELSE x,
          h |-> IF nh < 1 THEN 1 ELSE nh]

\* FilterType::Nearest: of n source samples resized to m, output sample x is
\* the source sample under its centre, floor((x + 1/2) * n / m), at most n-1.
NearestSample(x, n, m) ==
    LET i == ((2 * x + 1) * n) \div (2 * m) IN IF i > n - 1 THEN n - 1 ELSE i

\* Variant: the source tiled over the output instead of stretched.
ResizeTiled(img, nw, nh) ==
    LET size == ResizeDimensions(img, nw, nh) IN
    IF "px" \in DOMAIN img
    THEN [w |-> size.w, h |-> size.h,
          px |-> [p \in (0..(size.w - 1)) \X (0..(size.h - 1)) |->
                    img.px[<<p[1] % img.w, p[2] % img.h>>]]]
    ELSE size

\* DynamicImage::resize(nw, nh, Nearest).  An image is its size and, where
\* its content is followed, px, the pixel at each <<x, y>>.
Resize(img, nw, nh) ==
    LET size == ResizeDimensions(img, nw, nh) IN
    IF "px" \in DOMAIN img
    THEN [w |-> size.w, h |-> size.h,
          px |-> [p \in (0..(size.w - 1)) \X (0..(size.h - 1)) |->
                    img.px[<<NearestSample(p[1], img.w, size.w),
                             NearestSample(p[2], img.h, size.h)>>]]]
    ELSE size

\* Lines 267-268: the image scaled up by `scale`, sides multiplied in u32.
Upscaled(img, scale) ==
    Resize(img, Narrow(WrappingMul(img.w, scale)),
                Narrow(WrappingMul(img.h, scale)))

\* encode_image: the encoded bytes, described by format and size.
EncodeImage(img, img_fmt, encode_ok) ==
    IF encode_ok THEN Ok([fmt |-> img_fmt, w |-> img.w, h |-> img.h])
    ELSE Err(Unit)

\* Variant: the put issued with default metadata (no content type).
UploadImageToBucketNoMeta(stem, data, img_fmt) ==
    [key |-> stem \o "." \o FirstExtension(img_fmt),
     data |-> data,
     content_type |-> None]

\* upload_image_to_bucket up to its await: the put it issues.
UploadImageToBucket(stem, data, img_fmt) ==
    [key |-> stem \o "." \o FirstExtension(img_fmt),
     data |-> data,
     content_type |-> Some(ToMimeType(img_fmt))]

\* A task after its first poll: finished with Err(()) when encoding failed,
\* else waiting for the put it issued.
TaskAfterEncode(scale, enc, stem, dest_fmt) ==
    IF ~enc.ok
    THEN [scale |-> scale, st |-> "err", at |-> "encode", put |-> None]
    ELSE [scale |-> scale, st |-> "put", at |-> "",
          put |-> Some(UploadImageToBucket(stem, enc.val[1], dest_fmt))]

UploadOriginalImage(up, encode_ok) ==
    TaskAfterEncode(1, EncodeImage(up.img, up.dest_fmt, encode_ok),
                    up.hash, up.dest_fmt)

\* Variant: the scale left out of the stem.
UploadUpscaledImageNoScale(up, scale, encode_ok) ==
    LET img == Upscaled(up.img, scale)
    IN  TaskAfterEncode(scale, EncodeImage(img, up.dest_fmt, encode_ok),
                        up.hash, up.dest_fmt)

UploadUpscaledImage(up, scale, encode_ok) ==
    LET img == Upscaled(up.img, scale)
        stem == up.hash \o "_" \o FormatU32(scale) \o "x"
    IN  TaskAfterEncode(scale, EncodeImage(img, up.dest_fmt, encode_ok),
                        stem, up.dest_fmt)

\* map_pin! (mod macros, not among the sources): each future boxed and
\* pinned, in the order written, as Vec<BoxFuture<_>> and join_all require.
MapPin(futures) == futures

\* Variant: the futures listed from the largest scale down.
LaunchTasksLargestFirst(up, enc_fail) ==
    MapPin(<<UploadUpscaledImage(up, 16, 1 \notin enc_fail),
             UploadUpscaledImage(up, 8, 2 \notin enc_fail),
             UploadUpscaledImage(up, 4, 3 \notin enc_fail),
             UploadUpscaledImage(up, 2, 4 \notin enc_fail),
             UploadOriginalImage(up, 5 \notin enc_fail)>>)

\* The futures of lines 115-121, in order, after join_all's first poll.
\* enc_fail is the set of positions whose encode_image fails.
LaunchTasks(up, enc_fail) ==
    MapPin(<<UploadOriginalImage(up, 1 \notin enc_fail),
             UploadUpscaledImage(up, 2, 2 \notin enc_fail),
             UploadUpscaledImage(up, 4, 3 \notin enc_fail),
             UploadUpscaledImage(up, 8, 4 \notin enc_fail),
             UploadUpscaledImage(up, 16, 5 \notin enc_fail)>>)

\* The puts issued by the tasks, in the order they were polled.
RECURSIVE IssuedPuts(_)
IssuedPuts(ts) ==
    IF ts = <<>> THEN <<>>
    ELSE (IF Head(ts).put = None THEN <<>>
          ELSE <<[scale |-> Head(ts).scale, key |-> Head(ts).put[1].key]>>)
         \o IssuedPuts(Tail(ts))

\* A task's output once it has finished.
TaskOutput(t) ==
    IF t.st = "ok" THEN Ok([scale |-> t.scale, name |-> t.put[1].key])
    ELSE Err(Unit)

\* Variant: ready at the first failure (try_join_all) instead of at the end.
JoinAllReadyAtFirstErr(ts) ==
    \/ \E i \in 1..Len(ts) : ts[i].st = "err"
    \/ \A i \in 1..Len(ts) : ts[i].st = "ok"

\* Variant: ready only when every future has succeeded.
JoinAllReadyAllOk(ts) == \A i \in 1..Len(ts) : ts[i].st = "ok"

\* join_all is ready when every future has finished.
JoinAllReady(ts) == \A i \in 1..Len(ts) : ts[i].st \in {"ok", "err"}

\* Variant: the failures dropped, the successes kept (filter_map(Result::ok)).
RECURSIVE KeepOks(_)
KeepOks(results) ==
    IF results = <<>> THEN <<>>
    ELSE (IF Head(results).ok THEN <<Head(results).val[1]>> ELSE <<>>)
         \o KeepOks(Tail(results))

CollectOks(results) == Ok(KeepOks(results))

\* into_iter().collect::<Result<Vec<_>, ()>>()
Collect(results) ==
    IF \A i \in 1..Len(results) : results[i].ok
    THEN Ok([i \in 1..Len(results) |-> results[i].val[1]])
    ELSE Err(Unit)

\* Lines 122-127: the join's output collected and mapped to the ApiResult.
PostImageJoin(ts) ==
    LET task_res == Collect([i \in 1..Len(ts) |-> TaskOutput(ts[i])]) IN
    IF task_res.ok THEN task_res
    ELSE Err(ApiErrorNew(500, "Internal Server Error"))

\* Bucket::put(key, data).http_metadata(meta): the object replaces any
\* object of the same key.
BucketPut(objects, put) ==
    {o \in objects : o.key # put.key} \cup {put}

(***************************************************************************)
(* Inputs.  A submission is what the environment hands one request: is the *)
(* IMGS_BUCKET binding there, the Content-Type header, does reading the    *)
(* body succeed, the body, and what the decoder makes of it.               *)
(***************************************************************************)
ImgA == <<[b |-> 137, n |-> 1], [b |-> 80, n |-> 7]>>
ImgB == <<[b |-> 66, n |-> 1], [b |-> 77, n |-> 5]>>
AtCap == <<[b |-> 71, n |-> 1], [b |-> 0, n |-> MAX_BODY_LEN - 1]>>
OverCap == <<[b |-> 71, n |-> 1], [b |-> 0, n |-> MAX_BODY_LEN]>>
TwiceCap == <<[b |-> 0, n |-> 2 * MAX_BODY_LEN]>>

Bodies == {<<>>, ImgA, ImgB, AtCap, OverCap, TwiceCap}

ContentTypes ==
    {"image/png", "image/webp", "image/bmp", "image/gif",
     "image/jpeg", "image/tiff", "image/x-icon", "image/svg+xml",
     "image/png; charset=binary", "image", "IMAGE/PNG",
     "text/plain", "application/json"}

Headers == {None} \cup {Some(ct) : ct \in ContentTypes}

DecodeError(kind) == [kind |-> kind, w |-> 0, h |-> 0]
Decoded(w, h) == [kind |-> "image", w |-> w, h |-> h]

Decodes ==
    {DecodeError("Decoding"), DecodeError("Other"),
     Decoded(64, 64), Decoded(256, 256), Decoded(1024, 64), Decoded(1, 16),
     Decoded(300, 300), Decoded(257, 256), Decoded(2000, 10),
     Decoded(1024, 60), Decoded(1, 17)}

\* No decoder makes an image of zero bytes.
Submissions ==
    {s \in [bucket : BOOLEAN, content_type : Headers, read_ok : BOOLEAN,
            body : Bodies, decode : Decodes] :
        s.decode.kind = "image" => BodyLen(s.body) > 0}

\* Pairs of requests: every submission reaches the fan-out.
PairSubmissions ==
    [bucket : {TRUE}, content_type : {Some("image/png"), Some("image/gif")},
     read_ok : {TRUE}, body : {ImgA, ImgB}, decode : {Decoded(64, 64)}]

\* Submissions of one request followed to its response: one of each way
\* through post_image.
LiveSubmissions ==
    {s \in Submissions :
        /\ s.content_type \in {None, Some("image/png"), Some("text/plain")}
        /\ s.body \in {ImgA, OverCap}
        /\ s.decode \in {Decoded(64, 64), Decoded(300, 300), DecodeError("Decoding")}}

\* Encode failures of the request followed to its response: none, the
\* original's, two of the upscaled.
LiveEncodeFailures == {{}, {1}, {3, 5}}

\* Which encode_image calls of a request may fail.
EncodeFailures == SUBSET (1..5)

\* Puts the store may fail while two requests are in flight.
MaxPairFaults == 1

\* Width and height given to validate_img_dimension on its own.
DimValues ==
    {0, 1, 2, 15, 16, 17, 60, 64, 255, 256, 257, 300, 1023, 1024, 1025, 2000,
     4096, 65535, 65536, 65537, 1048576, 2147483647}

Reqs == {1, 2}

\* The scale factors of the upscaled variants.
UpScales == {2, 4, 8, 16}

\* Images whose content is followed: sides up to MaxSide, two pixel values.
MaxSide == 2

Pixels == {0, 1}

DeriveImages ==
    UNION {[w : {w}, h : {h}, px : [(0..(w - 1)) \X (0..(h - 1)) -> Pixels]] :
             <<w, h>> \in (1..MaxSide) \X (1..MaxSide)}

NoSubmission ==
    [bucket |-> FALSE, content_type |-> None, read_ok |-> FALSE,
     body |-> <<>>, decode |-> DecodeError("Other")]

NoLocals == [img_fmt |-> None, uploader |-> None]

(***************************************************************************)
(* State.                                                                  *)
(*   pc[r]     "idle", "reading" (awaiting req.bytes()), "joining"         *)
(*             (awaiting join_all), "done" (responded), "aborted" (panic)  *)
(*   req[r]    the submission                                              *)
(*   loc[r]    post_image's locals: img_fmt, uploader                      *)
(*   tasks[r]  the five upload futures                                     *)
(*   puts[r]   the puts the request has issued, in order (history)         *)
(*   resp[r]   the response, None until it is produced                     *)
(*   store     the bucket's objects                                        *)
(*   trace[r]  the steps post_image has evaluated, in order (history)      *)
(*   dim_in, dim_out   argument and result of validate_img_dimension when  *)
(*             it is run on its own                                        *)
(*   der_in, der_out   the image and scale given to the derivation of one  *)
(*             variant when it is run on its own, and the image derived    *)
(*   order[r]  the tasks whose put has returned, in the order the puts     *)
(*             returned (history, kept while observe is set)               *)
(*   observe   is the order of completion being recorded                   *)
(***************************************************************************)
\* The smallest image: one pixel.
OnePixel == [w |-> 1, h |-> 1, px |-> [p \in {<<0, 0>>} |-> 0]]

PipelineInit ==
    /\ pc = [r \in Reqs |-> "idle"]
    /\ req = [r \in Reqs |-> NoSubmission]
    /\ loc = [r \in Reqs |-> NoLocals]
    /\ tasks = [r \in Reqs |-> <<>>]
    /\ puts = [r \in Reqs |-> <<>>]
    /\ resp = [r \in Reqs |-> None]
    /\ store = {}
    /\ trace = [r \in Reqs |-> <<>>]
    /\ order = [r \in Reqs |-> <<>>]

\* The operations run on their own are not running.
StandaloneIdle ==
    /\ dim_in = [w |-> 1, h |-> 1, checks |-> FALSE]
    /\ dim_out = None
    /\ der_in = [img |-> OnePixel, scale |-> 1]
    /\ der_out = None

Init ==
    /\ PipelineInit
    /\ StandaloneIdle
    /\ observe = FALSE

\* The history of completions: task i of request r has just finished its put.
Completed(r, i) ==
    IF observe THEN [order EXCEPT ![r] = Append(@, i)] ELSE order

\* The request arrives and post_image runs to req.bytes().await, or to the
\* response of an early return.
Arrive(r, subs) ==
    /\ pc[r] = "idle"
    /\ \E sub \in subs :
         LET h == PostImageHead(sub) IN
         /\ req' = [req EXCEPT ![r] = sub]
         /\ trace' = [trace EXCEPT ![r] = h.steps]
         /\ IF h.res.ok
            THEN /\ pc' = [pc EXCEPT ![r] = "reading"]
                 /\ loc' = [loc EXCEPT ![r].img_fmt = Some(h.res.val[1])]
                 /\ resp' = resp
            ELSE /\ pc' = [pc EXCEPT ![r] = "done"]
                 /\ loc' = loc
                 /\ resp' = [resp EXCEPT ![r] = Some(HandlePostImage(h.res))]
    /\ UNCHANGED <<tasks, puts, store, dim_in, dim_out,
                 der_in, der_out, order, observe>>

\* req.bytes() returns and post_image runs to join_all(tasks).await (every
\* task polled once: encoded, its put issued), or to the response of an
\* early return.
BodyRead(r, enc_fails) ==
    /\ pc[r] = "reading"
    /\ \E checks \in BOOLEAN, enc_fail \in enc_fails :
         \E l \in {PostImageLoad(req[r], loc[r].img_fmt[1], checks)} :
         /\ trace' = [trace EXCEPT ![r] =
                        @ \o l.steps \o (IF ~l.panic /\ l.res.ok THEN <<"join_all">>
                                         ELSE <<>>)]
         /\ IF l.panic
            THEN /\ pc' = [pc EXCEPT ![r] = "aborted"]
                 /\ UNCHANGED <<loc, tasks, puts, resp>>
            ELSE IF ~l.res.ok
            THEN /\ pc' = [pc EXCEPT ![r] = "done"]
                 /\ resp' = [resp EXCEPT ![r] = Some(HandlePostImage(l.res))]
                 /\ UNCHANGED <<loc, tasks, puts>>
            ELSE /\ pc' = [pc EXCEPT ![r] = "joining"]
                 /\ loc' = [loc EXCEPT ![r].uploader = Some(l.res.val[1])]
                 /\ tasks' = [tasks EXCEPT ![r] = LaunchTasks(l.res.val[1], enc_fail)]
                 /\ puts' = [puts EXCEPT ![r] =
                               @ \o IssuedPuts(LaunchTasks(l.res.val[1], enc_fail))]
                 /\ resp' = resp
    /\ UNCHANGED <<req, store, dim_in, dim_out,
                 der_in, der_out, order, observe>>

\* The put of task i returns Ok: the object is stored, the task finishes
\* with its UploadedImage.
PutOk(r, i) ==
    /\ pc[r] = "joining"
    /\ i \in 1..Len(tasks[r])
    /\ tasks[r][i].st = "put"
    /\ store' = BucketPut(store, tasks[r][i].put[1])
    /\ tasks' = [tasks EXCEPT ![r][i].st = "ok"]
    /\ order' = Completed(r, i)
    /\ UNCHANGED <<pc, req, loc, puts, resp, trace, dim_in, dim_out,
                 der_in, der_out, observe>>

\* Variant: a failed put undoes the puts of the request that succeeded.
PutErrRollback(r, i) ==
    /\ pc[r] = "joining"
    /\ i \in 1..Len(tasks[r])
    /\ tasks[r][i].st = "put"
    /\ tasks' = [tasks EXCEPT ![r][i].st = "err", ![r][i].at = "put"]
    /\ store' = {o \in store : \A k \in 1..Len(tasks[r]) :
                                  tasks[r][k].put = None \/ tasks[r][k].put[1] # o}
    /\ order' = Completed(r, i)
    /\ UNCHANGED <<pc, req, loc, puts, resp, trace, dim_in, dim_out,
                 der_in, der_out, observe>>

\* Variant: a failed put is issued again.
PutErrRetry(r, i) ==
    /\ pc[r] = "joining"
    /\ i \in 1..Len(tasks[r])
    /\ tasks[r][i].st = "put"
    /\ puts' = [puts EXCEPT ![r] =
                  Append(@, [scale |-> tasks[r][i].scale,
                             key |-> tasks[r][i].put[1].key])]
    /\ UNCHANGED <<pc, req, loc, tasks, resp, store, trace, dim_in, dim_out,
                 der_in, der_out, order, observe>>

\* The put of task i returns Err: the task finishes with Err(()).
PutErr(r, i) ==
    /\ pc[r] = "joining"
    /\ i \in 1..Len(tasks[r])
    /\ tasks[r][i].st = "put"
    /\ tasks' = [tasks EXCEPT ![r][i].st = "err", ![r][i].at = "put"]
    /\ order' = Completed(r, i)
    /\ UNCHANGED <<pc, req, loc, puts, resp, store, trace, dim_in, dim_out,
                 der_in, der_out, observe>>

\* join_all returns; post_image maps the result and handle_post_image
\* responds.
Join(r) ==
    /\ pc[r] = "joining"
    /\ JoinAllReady(tasks[r])
    /\ pc' = [pc EXCEPT ![r] = "done"]
    /\ resp' = [resp EXCEPT ![r] = Some(HandlePostImage(PostImageJoin(tasks[r])))]
    /\ trace' = [trace EXCEPT ![r] = @ \o <<"collect">>]
    /\ UNCHANGED <<req, loc, tasks, puts, store, dim_in, dim_out,
                 der_in, der_out, order, observe>>

\* One request, any submission.
Next ==
    \/ Arrive(1, Submissions)
    \/ BodyRead(1, EncodeFailures)
    \/ \E i \in 1..5 : PutOk(1, i)
    \/ \E i \in 1..5 : PutErr(1, i)
    \/ Join(1)

Spec == Init /\ [][Next]_vars

\* One request followed to its response.
NextLive ==
    \/ Arrive(1, LiveSubmissions)
    \/ BodyRead(1, LiveEncodeFailures)
    \/ \E i \in 1..5 : PutOk(1, i)
    \/ \E i \in 1..5 : PutErr(1, i)
    \/ Join(1)

\* The body read returns, every put that is issued returns, and the runtime
\* resumes post_image when join_all is ready.
LiveSpec ==
    /\ Init /\ [][NextLive]_vars
    /\ WF_vars(BodyRead(1, LiveEncodeFailures))
    /\ WF_vars(\E i \in 1..5 : PutOk(1, i) \/ PutErr(1, i))
    /\ WF_vars(Join(1))

\* Number of puts that have failed.
FailedPuts ==
    Cardinality({<<r, i>> \in Reqs \X (1..5) :
                    i <= Len(tasks[r]) /\ tasks[r][i].st = "err"
                    /\ tasks[r][i].at = "put"})

\* Two requests in flight together.
NextPair ==
    \E r \in Reqs :
        \/ Arrive(r, PairSubmissions)
        \/ BodyRead(r, {{}})
        \/ \E i \in 1..5 : PutOk(r, i)
        \/ \E i \in 1..5 : FailedPuts < MaxPairFaults /\ PutErr(r, i)
        \/ Join(r)

PairSpec == Init /\ [][NextPair]_vars

\* One request whose puts are observed as they return, in any order.
OrderInit ==
    /\ PipelineInit
    /\ StandaloneIdle
    /\ observe = TRUE

NextObserved ==
    \/ Arrive(1, PairSubmissions)
    \/ BodyRead(1, {{}})
    \/ \E i \in 1..5 : PutOk(1, i)
    \/ \E i \in 1..5 : PutErr(1, i)
    \/ Join(1)

OrderSpec == OrderInit /\ [][NextObserved]_vars

\* validate_img_dimension on its own, over u32 widths and heights.
DimInit ==
    /\ PipelineInit
    /\ dim_in \in [w : DimValues, h : DimValues, checks : BOOLEAN]
    /\ dim_out = None
    /\ der_in = [img |-> OnePixel, scale |-> 1]
    /\ der_out = None
    /\ observe = FALSE

ValidateDimension ==
    /\ dim_out = None
    /\ dim_out' = Some(ValidateImgDimension(dim_in.w, dim_in.h, dim_in.checks))
    /\ UNCHANGED <<pc, req, loc, tasks, puts, resp, store, trace, dim_in,
                 der_in, der_out, order, observe>>

DimSpec == DimInit /\ [][ValidateDimension]_vars

\* The derivation of one variant on its own, for the images that
\* validate_img_dimension accepts.
DeriveInit ==
    /\ PipelineInit
    /\ dim_in = [w |-> 1, h |-> 1, checks |-> FALSE]
    /\ dim_out = None
    /\ der_in \in {d \in [img : DeriveImages, scale : {1} \cup UpScales] :
                     ValidateImgDimension(d.img.w, d.img.h, FALSE).res.ok}
    /\ der_out = None
    /\ observe = FALSE

\* upload_original_image encodes self.img itself; upload_upscaled_image
\* encodes the resized image.
Derive ==
    /\ der_out = None
    /\ der_out' = Some(IF der_in.scale = 1 THEN der_in.img
                       ELSE Upscaled(der_in.img, der_in.scale))
    /\ UNCHANGED <<pc, req, loc, tasks, puts, resp, store, trace, dim_in, dim_out,
                   der_in, order, observe>>

DeriveSpec == DeriveInit /\ [][Derive]_vars

(***************************************************************************)
(* Properties.                                                             *)
(***************************************************************************)
Responded(r) == resp[r] # None
Launched(r) == tasks[r] # <<>>
InTrace(r, step) == \E k \in 1..Len(trace[r]) : trace[r][k] = step
TaskIds(r) == 1..Len(tasks[r])

\* C1. All-or-nothing reporting: once a request that reached the fan-out has
\* responded, a failure of any of the five tasks gives a 500 that carries no
\* list of records, whichever task failed and whatever the others did; the
\* only list a caller ever sees is the complete one of five records.
C1_AllOrNothing ==
    \A r \in Reqs :
        Responded(r) /\ Launched(r) =>
            /\ (\E i \in TaskIds(r) : tasks[r][i].st = "err") =>
                   /\ resp[r][1].status = 500
                   /\ resp[r][1].body.kind # "json_list"
                   /\ resp[r][1].body.items = <<>>
            /\ resp[r][1].body.kind = "json_list" =>
                   /\ Len(resp[r][1].body.items) = 5
                   /\ \A i \in TaskIds(r) : tasks[r][i].st = "ok"

\* One put failed after the four others had succeeded, and the caller got 500.
C1_Witness ==
    \E r \in Reqs :
        /\ Responded(r) /\ Launched(r)
        /\ resp[r][1].status = 500
        /\ Cardinality({i \in TaskIds(r) : tasks[r][i].st = "ok"}) = 4
        /\ tasks[r][3].st = "err" /\ tasks[r][3].at = "put"

\* C2. Unconditional join: a response is produced only when all five tasks
\* have finished, so no put is in flight at the response; and from the launch
\* on every task whose encoding did not fail has had its put issued, whatever
\* happened to its siblings.
C2_UnconditionalJoin ==
    \A r \in Reqs :
        /\ Responded(r) /\ Launched(r) =>
               \A i \in TaskIds(r) : tasks[r][i].st \in {"ok", "err"}
        /\ Launched(r) =>
               /\ Len(tasks[r]) = 5
               /\ \A i \in TaskIds(r) :
                      \/ tasks[r][i].st = "err" /\ tasks[r][i].at = "encode"
                      \/ /\ tasks[r][i].put # None
                         /\ \E k \in 1..Len(puts[r]) :
                                puts[r][k].key = tasks[r][i].put[1].key

\* A task failed at encode, a sibling's put failed, and the other three puts
\* still ran to success before the response.
C2_Witness ==
    \E r \in Reqs :
        /\ Responded(r) /\ Launched(r)
        /\ tasks[r][1].st = "err" /\ tasks[r][1].at = "encode"
        /\ tasks[r][2].st = "err" /\ tasks[r][2].at = "put"
        /\ \A i \in 3..5 : tasks[r][i].st = "ok"
        /\ \A i \in 3..5 : \E o \in store : o.key = tasks[r][i].put[1].key

\* C3. Internal failures are opaque: every 500 response has an empty body.
C3_InternalFailuresOpaque ==
    \A r \in Reqs :
        Responded(r) /\ resp[r][1].status = 500 => resp[r][1].body = EmptyBody

\* C4. Fan-out completeness: a successful response holds exactly five records,
\* one for each of the scales 1, 2, 4, 8, 16, with pairwise distinct names,
\* each name being <fingerprint>.png for scale 1 and <fingerprint>_<scale>x.png
\* otherwise, the fingerprint being the lowercase hex digest of the body.
ScaleText == [s \in {1, 2, 4, 8, 16} |->
                CASE s = 1 -> "1" [] s = 2 -> "2" [] s = 4 -> "4"
                  [] s = 8 -> "8" [] OTHER -> "16"]

IsLowerHex(str) ==
    \A k \in 1..Len(str) :
        SubSeq(str, k, k) \in {"0", "1", "2", "3", "4", "5", "6", "7", "8", "9",
                               "a", "b", "c", "d", "e", "f"}

ExpectedKey(fp, s) ==
    IF s = 1 THEN fp \o ".png" ELSE fp \o "_" \o ScaleText[s] \o "x.png"

C4_FanOutComplete ==
    \A r \in Reqs :
        Responded(r) /\ resp[r][1].status = 200 =>
            LET items == resp[r][1].body.items
                fp == HexEncode(Sha256(req[r].body))
            IN  /\ resp[r][1].body.kind = "json_list"
                /\ Len(items) = 5
                /\ \A s \in {1, 2, 4, 8, 16} :
                       Cardinality({k \in 1..Len(items) : items[k].scale = s}) = 1
                /\ \A j, k \in 1..Len(items) :
                       j # k => items[j].name # items[k].name
                /\ Len(fp) = 2 * DigestLen /\ IsLowerHex(fp)
                /\ \A k \in 1..Len(items) :
                       /\ items[k].scale \in {1, 2, 4, 8, 16}
                       /\ items[k].name = ExpectedKey(fp, items[k].scale)

\* A request answered 200.
C4_Witness ==
    \E r \in Reqs :
        /\ Responded(r) /\ resp[r][1].status = 200
        /\ Len(resp[r][1].body.items) = 5

\* C5. Validation precedes persistence: a request answered 400 or 413 has
\* issued no put, and a request that has issued a put carries a supported
\* Content-Type, a body within 512 KiB, a decodable image and dimensions
\* within the three limits.
SupportedMime == {"image/png", "image/webp", "image/bmp", "image/gif"}

WithinLimits(w, h) ==
    LET long == IF w > h THEN w ELSE h
        short == IF w > h THEN h ELSE w
    IN  /\ h = 0 \/ w <= 65536 \div h
        /\ long <= 1024
        /\ long <= 16 * short

C5_ValidationFirst ==
    \A r \in Reqs :
        /\ Responded(r) /\ resp[r][1].status \in {400, 413} =>
               puts[r] = <<>> /\ tasks[r] = <<>>
        /\ puts[r] # <<>> =>
               /\ req[r].content_type # None
               /\ req[r].content_type[1] \in SupportedMime
               /\ BodyLen(req[r].body) <= 524288
               /\ req[r].decode.kind = "image"
               /\ WithinLimits(req[r].decode.w, req[r].decode.h)

\* A request rejected by the dimension gate, with no put issued.
C5_Witness ==
    \E r \in Reqs :
        /\ Responded(r) /\ resp[r][1].status = 400
        /\ InTrace(r, "validate_img_dimension")
        /\ puts[r] = <<>>

\* C6. Format gate: with the storage binding obtained, a request without a
\* Content-Type header is answered 400 "missing Content-Type header"; one
\* whose type is not image/png, image/webp, image/bmp or image/gif (whether
\* it starts with image/ or not) is answered 400 by the format validator and
\* goes no further; one whose type is among the four passes the gate with
\* that format as img_fmt and goes on to read the body.
FormatTag ==
    [ct \in SupportedMime |->
        CASE ct = "image/png" -> "Png" [] ct = "image/webp" -> "WebP"
          [] ct = "image/bmp" -> "Bmp" [] OTHER -> "Gif"]

GateOnly == <<"bucket", "content_type", "validate_img_format">>

RejectedByFormat(r) ==
    /\ Responded(r) /\ trace[r] = GateOnly /\ resp[r][1].status = 400

\* The part of a media type after its first "/" (all of it when it has none).
RECURSIVE SubtypeFrom(_, _)
SubtypeFrom(ct, k) ==
    IF k > Len(ct) THEN ct
    ELSE IF SubSeq(ct, k, k) = "/" THEN SubSeq(ct, k + 1, Len(ct))
    ELSE SubtypeFrom(ct, k + 1)

Subtype(ct) == SubtypeFrom(ct, 1)

\* The names a message can give a media type's subtype: the subtype as
\* declared, or the file extension of the format it denotes.
SubtypeNames(ct) ==
    {Subtype(ct)} \cup
        (IF FromMimeType(ct) = None THEN {} ELSE {FirstExtension(FromMimeType(ct)[1])})

\* C7 as stated: every rejection of a present Content-Type by the format
\* validator carries a message that names the offending subtype.
C7_MessageNamesSubtype ==
    \A r \in Reqs :
        RejectedByFormat(r) =>
            \E n \in SubtypeNames(req[r].content_type[1]) :
                Contains(resp[r][1].body.message, n)

\* C7 as amended: a recognised but unsupported format is rejected with
\* "unsupported image format: " followed by the library's first file extension
\* of the format (jpg for image/jpeg, tiff for image/tiff, ico for
\* image/x-icon); every other rejected type, image/* or not, is rejected with
\* the fixed message "Content-Type is not for an image".
UnsupportedMessage ==
    [ct \in {"image/jpeg", "image/tiff", "image/x-icon"} |->
        CASE ct = "image/jpeg" -> "unsupported image format: jpg"
          [] ct = "image/tiff" -> "unsupported image format: tiff"
          [] OTHER -> "unsupported image format: ico"]

C7_MessageByCase ==
    \A r \in Reqs :
        RejectedByFormat(r) =>
            LET ct == req[r].content_type[1] IN
            resp[r][1].body.message =
                IF ct \in DOMAIN UnsupportedMessage THEN UnsupportedMessage[ct]
                ELSE "Content-Type is not for an image"

\* image/jpeg was rejected, and the message names jpg.
C7_Witness ==
    \E r \in Reqs :
        /\ RejectedByFormat(r)
        /\ req[r].content_type = Some("image/jpeg")
        /\ Contains(resp[r][1].body.message, "jpg")

DimOutcome(o) ==
    IF o.panic THEN "panic"
    ELSE IF o.res.ok THEN "accepted"
    ELSE IF StartsWith(o.res.err[1].message[1], "Image has too many pixels")
    THEN "TooManyPixels"
    ELSE IF StartsWith(o.res.err[1].message[1], "Long side of image is too long")
    THEN "LongSideTooLarge"
    ELSE "AspectRatioOutOfRange"

\* The outcome the claim states, in unbounded arithmetic.
DimExpected(w, h) ==
    LET long == IF w > h THEN w ELSE h
        short == IF w > h THEN h ELSE w
    IN  IF h > 0 /\ w > 65536 \div h THEN "TooManyPixels"
        ELSE IF long > 1024 THEN "LongSideTooLarge"
        ELSE IF (short = 0 /\ long > 0) \/ (short > 0 /\ long > 16 * short)
        THEN "AspectRatioOutOfRange"
        ELSE "accepted"

C9_DimensionGate ==
    dim_out # None /\ ~dim_out[1].panic =>
        DimOutcome(dim_out[1]) = DimExpected(dim_in.w, dim_in.h)

\* C10. Content-addressed determinism: two requests that both reached the
\* fan-out with the same body bytes have the same fingerprint and issue their
\* puts to the same keys, scale by scale, whatever Content-Type each declared
\* and however their steps interleave.
C10_SameBytesSameKeys ==
    \A r1, r2 \in Reqs :
        Launched(r1) /\ Launched(r2) /\ req[r1].body = req[r2].body =>
            /\ loc[r1].uploader[1].hash = loc[r2].uploader[1].hash
            /\ {p.key : p \in {puts[r1][k] : k \in 1..Len(puts[r1])}}
                 = {p.key : p \in {puts[r2][k] : k \in 1..Len(puts[r2])}}
            /\ \A i \in 1..5 :
                   tasks[r1][i].put[1].key = tasks[r2][i].put[1].key

\* Two requests with the same bytes, declared as PNG by one and as GIF by the
\* other, both past the fan-out, five puts each.
C10_Witness ==
    \E r1, r2 \in Reqs :
        /\ r1 # r2
        /\ Launched(r1) /\ Launched(r2)
        /\ req[r1].body = req[r2].body
        /\ req[r1].content_type = Some("image/png")
        /\ req[r2].content_type = Some("image/gif")
        /\ Len(puts[r1]) = 5 /\ Len(puts[r2]) = 5
        /\ Responded(r1) /\ pc[r2] = "joining"

\* C11. Storage key rule: every put of a request goes to <fingerprint>.png for
\* scale 1 and to <fingerprint>_<scale>x.png for scales 2, 4, 8, 16, whatever
\* format the request declared, with content type image/png and PNG data;
\* every stored object is such a put; and each record of a 200 response names
\* the key of the succeeded put of its scale, an object of the store.
C11_StorageKeyRule ==
    \A r \in Reqs :
        Launched(r) =>
            LET fp == HexEncode(Sha256(req[r].body)) IN
            /\ \A i \in TaskIds(r) :
                   tasks[r][i].put # None =>
                       /\ tasks[r][i].put[1].key = ExpectedKey(fp, tasks[r][i].scale)
                       /\ tasks[r][i].put[1].content_type = Some("image/png")
                       /\ tasks[r][i].put[1].data.fmt = "Png"
                       /\ tasks[r][i].st = "ok" => tasks[r][i].put[1] \in store
            /\ \A o \in store :
                   /\ o.content_type = Some("image/png")
                   /\ \E q \in Reqs : \E i \in TaskIds(q) :
                          tasks[q][i].st = "ok" /\ tasks[q][i].put[1] = o
            /\ Responded(r) /\ resp[r][1].status = 200 =>
                   \A k \in 1..Len(resp[r][1].body.items) :
                       \E i \in TaskIds(r) :
                           /\ tasks[r][i].st = "ok"
                           /\ tasks[r][i].scale = resp[r][1].body.items[k].scale
                           /\ tasks[r][i].put[1].key = resp[r][1].body.items[k].name
                           /\ \E o \in store : o.key = resp[r][1].body.items[k].name

\* A request declared as GIF answered 200, its five objects stored as PNG.
C11_Witness ==
    \E r \in Reqs :
        /\ req[r].content_type = Some("image/gif")
        /\ Responded(r) /\ resp[r][1].status = 200
        /\ Cardinality(store) = 5
        /\ \A o \in store : o.content_type = Some("image/png")

\* C13. Partial persistence without rollback: no step removes or replaces an
\* object of the store, and when a request responds every put of it that
\* succeeded is still an object of the store, also when the response reports
\* a failure.
C13_NoRollback ==
    [][/\ \A o \in store : o \in store'
       /\ \A r \in Reqs :
              resp'[r] # None =>
                  \A i \in 1..Len(tasks'[r]) :
                      tasks'[r][i].st = "ok" => tasks'[r][i].put[1] \in store']_vars

\* The caller was told 500 because the put of the original failed, while the
\* four upscaled variants are in the store.
C13_Witness ==
    \E r \in Reqs :
        /\ Responded(r) /\ resp[r][1].status = 500
        /\ Launched(r) /\ tasks[r][1].st = "err"
        /\ Cardinality(store) = 4
        /\ \A i \in 2..5 : tasks[r][i].put[1] \in store

\* C15. No retry: the puts of a request are all issued at the launch, at most
\* five, one per scale and each to its own key, and none is added afterwards;
\* a task that failed stays failed, its put issued once.
C15_NoRetry ==
    [][\A r \in Reqs :
           /\ tasks[r] # <<>> => puts'[r] = puts[r]
           /\ Len(puts'[r]) <= 5
           /\ \A j, k \in 1..Len(puts'[r]) :
                  j # k => /\ puts'[r][j].scale # puts'[r][k].scale
                           /\ puts'[r][j].key # puts'[r][k].key
           /\ \A i \in 1..Len(tasks[r]) :
                  tasks[r][i].st = "err" => tasks'[r][i] = tasks[r][i]
           /\ \A i \in 1..Len(tasks'[r]) :
                  tasks'[r][i].at = "put" =>
                      Cardinality({k \in 1..Len(puts'[r]) :
                                      puts'[r][k].scale = tasks'[r][i].scale}) = 1]_vars

\* Two puts failed, five puts were issued in all, and the request responded.
C15_Witness ==
    \E r \in Reqs :
        /\ Responded(r)
        /\ Len(puts[r]) = 5
        /\ tasks[r][2].at = "put" /\ tasks[r][5].at = "put"

\* The steps of post_image in the order of the code.
AllSteps ==
    <<"bucket", "content_type", "validate_img_format", "bytes", "body_len",
      "load_image_with_hash", "validate_img_dimension", "join_all", "collect">>

\* The first fault of a submission in the order of C18: the number of the
\* step that finds it and the status it is answered with; step 0 for none.
FirstFault(sub) ==
    IF ~sub.bucket THEN [step |-> 1, status |-> 500]
    ELSE IF sub.content_type = None THEN [step |-> 2, status |-> 400]
    ELSE IF sub.content_type[1] \notin SupportedMime THEN [step |-> 3, status |-> 400]
    ELSE IF ~sub.read_ok THEN [step |-> 4, status |-> 500]
    ELSE IF BodyLen(sub.body) > 512 * 1024 THEN [step |-> 5, status |-> 413]
    ELSE IF sub.decode.kind = "Decoding" THEN [step |-> 6, status |-> 400]
    ELSE IF sub.decode.kind # "image" THEN [step |-> 6, status |-> 500]
    ELSE IF ~WithinLimits(sub.decode.w, sub.decode.h) THEN [step |-> 7, status |-> 400]
    ELSE [step |-> 0, status |-> 200]

\* C18. Fixed error precedence: a response reports the first fault of the
\* request in the order binding, missing header, unsupported format, body
\* read, size, decoding, dimensions, fan-out, and the steps evaluated are
\* exactly those up to the one that found it.
C18_ErrorPrecedence ==
    \A r \in Reqs :
        Responded(r) =>
            LET f == FirstFault(req[r]) IN
            IF f.step # 0
            THEN /\ resp[r][1].status = f.status
                 /\ trace[r] = SubSeq(AllSteps, 1, f.step)
                 /\ tasks[r] = <<>>
            ELSE /\ trace[r] = AllSteps
                 /\ resp[r][1].status =
                        IF \E i \in TaskIds(r) : tasks[r][i].st = "err"
                        THEN 500 ELSE 200

\* Without the binding a request that has no Content-Type got 500.
C18_Witness ==
    \E r \in Reqs :
        /\ Responded(r)
        /\ ~req[r].bucket /\ req[r].content_type = None
        /\ BodyLen(req[r].body) > 512 * 1024
        /\ resp[r][1].status = 500
        /\ trace[r] = <<"bucket">>

\* C17. Every size accepted by validate_img_dimension is within the limits in
\* unbounded arithmetic: both sides at most 1024, w*h at most 65536, the long
\* side at most 16 times the short one; so for each scale s of 2, 4, 8, 16
\* the u32 products w*s and h*s do not overflow and equal the true products,
\* and the derived grid has at most 65536 * 16 * 16 pixels.
C17_AcceptedWithinLimits ==
    dim_out # None /\ ~dim_out[1].panic /\ dim_out[1].res.ok =>
        /\ dim_in.w <= 1024
        /\ dim_in.h <= 1024
        /\ dim_in.w * dim_in.h <= 65536
        /\ dim_in.w <= 16 * dim_in.h
        /\ dim_in.h <= 16 * dim_in.w
        /\ \A s \in UpScales :
               /\ ~MulOverflows(dim_in.w, s)
               /\ ~MulOverflows(dim_in.h, s)
               /\ Narrow(WrappingMul(dim_in.w, s)) = dim_in.w * s
               /\ Narrow(WrappingMul(dim_in.h, s)) = dim_in.h * s
               /\ (dim_in.w * s) * (dim_in.h * s) <= 65536 * 16 * 16

\* 1024 x 64, at all three limits, is accepted.
C17_Witness ==
    /\ dim_out # None /\ ~dim_out[1].panic /\ dim_out[1].res.ok
    /\ dim_in.w = 1024 /\ dim_in.h = 64

\* C12. Derivation correctness: for an accepted image of size (w, h) and a
\* scale s of 2, 4, 8, 16 the derived image has size (s*w, s*h) and each of
\* its s-by-s blocks repeats the one source pixel of the block's place; the
\* scale-1 variant is the image itself.
C12_DerivationCorrect ==
    der_out # None =>
        LET img == der_in.img
            s == der_in.scale
            out == der_out[1]
        IN  IF s = 1 THEN out = img
            ELSE /\ out.w = s * img.w
                 /\ out.h = s * img.h
                 /\ DOMAIN out.px = (0..(s * img.w - 1)) \X (0..(s * img.h - 1))
                 /\ \A x \in 0..(img.w - 1), y \in 0..(img.h - 1) :
                        \A dx, dy \in 0..(s - 1) :
                            out.px[<<s * x + dx, s * y + dy>>] = img.px[<<x, y>>]

\* A 2 x 1 image of two different pixels scaled by 4 to 8 x 4.
C12_Witness ==
    /\ der_out # None
    /\ der_in.scale = 4
    /\ der_in.img.w = 2 /\ der_in.img.h = 1
    /\ der_in.img.px[<<0, 0>>] # der_in.img.px[<<1, 0>>]
    /\ der_out[1].w = 8 /\ der_out[1].h = 4
    /\ der_out[1].px[<<3, 3>>] # der_out[1].px[<<4, 3>>]

\* C14. Result order is fixed by construction: the list of a 200 response is
\* in the order of scales 1, 2, 4, 8, 16, whichever of the orders of its five
\* tasks the puts returned in.
C14_OrderByConstruction ==
    \A r \in Reqs :
        Responded(r) /\ resp[r][1].status = 200 =>
            /\ Len(order[r]) = 5
            /\ \A i \in 1..5 : \E k \in 1..5 : order[r][k] = i
            /\ [k \in 1..Len(resp[r][1].body.items) |->
                   resp[r][1].body.items[k].scale] = <<1, 2, 4, 8, 16>>

\* The puts returned from the largest scale down to the original, and the
\* list of the response starts with the original.
C14_Witness ==
    \E r \in Reqs :
        /\ Responded(r) /\ resp[r][1].status = 200
        /\ order[r] = <<5, 4, 3, 2, 1>>
        /\ resp[r][1].body.items[1].scale = 1
        /\ resp[r][1].body.items[5].scale = 16

====
